---- MODULE Spec2Model ----
(***************************************************************************)
(* CertQuest: the gameplay state machine of engine/game.py together with   *)
(* the Player record (engine/player.py), the ThemeManager                  *)
(* (engine/theme_manager.py) and the input classifier                      *)
(* (engine/input_handler.py).                                              *)
(*                                                                         *)
(* One action is one stretch of Game.run between two blocking reads of a   *)
(* line of input; the line that was read is the action's input.            *)
(***************************************************************************)
EXTENDS Integers, Sequences, FiniteSets, TLC

VARIABLES
    cert,               \* Game.cert: the loaded CertificationConfig
    pc,                 \* position of Game.run (the read it is blocked on)
    cancelled,          \* the input stream has reached end-of-input
    theme_keys,         \* ThemeManager.theme_keys
    current_index,      \* ThemeManager.current_index
    player,             \* Game.player (NoPlayer while it is None)
    selected_scenarios, \* Game.selected_scenarios: domain -> sampled pool positions
    current_scenario,   \* Game.current_scenario: <<domain, pool position>>
    last_read,          \* get_choice, get_text: what the last call of input() delivered
    result,             \* _run_scenario: the last value of get_choice
    branch,             \* _run_scenario: the handler the last read ended in
    call                \* the last method called on the Player and what it returned

vars == <<cert, pc, cancelled, theme_keys, current_index, player,
          selected_scenarios, current_scenario, last_read, result, branch, call>>

-----------------------------------------------------------------------------
(* Bounds of the model *)

MaxDomains == 2         \* certifications have 1..MaxDomains domains
PoolSize == 2           \* authored scenarios of the first domain
MaxPerDomain == 2       \* scoring.scenarios_per_domain ranges over 1..MaxPerDomain
MaxCalls == 2           \* calls in a row on an object exercised outside a session
MaxThemes == 3          \* a certification declares 0..MaxThemes themes

-----------------------------------------------------------------------------
(* Small helpers *)

None == -1

Min(a, b) == IF a <= b THEN a ELSE b

Range(s) == {s[k] : k \in 1..Len(s)}

\* sequences of length n over S without a repeated element
InjectiveSeqs(S, n) ==
    {s \in [1..n -> S] : \A a, b \in 1..n : a # b => s[a] # s[b]}

-----------------------------------------------------------------------------
(* Lines of input.  A line is a sequence of characters. *)

Digits == {"0", "1", "2", "3", "4", "5", "6", "7", "8", "9"}

DigitVal(c) ==
    CASE c = "0" -> 0 [] c = "1" -> 1 [] c = "2" -> 2 [] c = "3" -> 3
      [] c = "4" -> 4 [] c = "5" -> 5 [] c = "6" -> 6 [] c = "7" -> 7
      [] c = "8" -> 8 [] c = "9" -> 9

\* the lines the player types in this model
Lines ==
    { <<>>, <<"q">>, <<"Q">>, <<"h">>, <<"s">>, <<"c">>, <<"0">>, <<"1">>,
      <<"2">>, <<"3">>, <<" ", "1">>, <<"-", "1">>, <<"x">>, <<"y">> }

\* what a call of input() delivers: a line, or one of the two exceptions the
\* handlers catch
EOFError == [kind |-> "EOFError", line |-> <<>>]

KeyboardInterrupt == [kind |-> "KeyboardInterrupt", line |-> <<>>]

Reads == {EOFError, KeyboardInterrupt} \cup {[kind |-> "line", line |-> l] : l \in Lines}

Raised(read) == read.kind # "line"

\* no call of input() yet
NoRead == [kind |-> "none", line |-> <<>>]

\* no method of the Player called directly
NoCall == [op |-> "none", n |-> 0, amount |-> 0, domain |-> 0, ret |-> 0]

\* str.strip()
RECURSIVE LStrip(_)
LStrip(s) == IF s # <<>> /\ Head(s) = " " THEN LStrip(Tail(s)) ELSE s

RECURSIVE RStrip(_)
RStrip(s) ==
    IF s # <<>> /\ s[Len(s)] = " " THEN RStrip(SubSeq(s, 1, Len(s) - 1)) ELSE s

Strip(s) == RStrip(LStrip(s))

\* str.lower()
LowerChar(c) ==
    CASE c = "Q" -> "q" [] c = "Y" -> "y" [] c = "N" -> "n" [] OTHER -> c

Lower(s) == [k \in 1..Len(s) |-> LowerChar(s[k])]

\* str.isdigit()
IsDigit(s) == s # <<>> /\ \A k \in 1..Len(s) : s[k] \in Digits

RECURSIVE DigitsToInt(_)
DigitsToInt(s) ==
    IF s = <<>> THEN 0
    ELSE 10 * DigitsToInt(SubSeq(s, 1, Len(s) - 1)) + DigitVal(s[Len(s)])

\* int(s): [ok |-> FALSE] stands for ValueError
ParseInt(s) ==
    IF IsDigit(s) THEN [ok |-> TRUE, val |-> DigitsToInt(s)]
    ELSE IF s # <<>> /\ Head(s) = "-" /\ IsDigit(Tail(s))
         THEN [ok |-> TRUE, val |-> 0 - DigitsToInt(Tail(s))]
    ELSE IF s # <<>> /\ Head(s) = "+" /\ IsDigit(Tail(s))
         THEN [ok |-> TRUE, val |-> DigitsToInt(Tail(s))]
    ELSE [ok |-> FALSE, val |-> 0]

QUIT_COMMANDS ==
    { <<"q", "u", "i", "t">>, <<"e", "x", "i", "t">>, <<"q">>, <<"b", "y", "e">> }

HELP_COMMANDS == { <<"h", "e", "l", "p">>, <<"h">>, <<"?">> }

STATUS_COMMANDS == { <<"s", "t", "a", "t", "u", "s">>, <<"s", "t", "a", "t", "s">>, <<"s">> }

THEME_COMMANDS ==
    { <<"0">>, <<"c">>, <<"c", "h", "a", "n", "g", "e">>, <<"t", "h", "e", "m", "e">>,
      <<"s", "w", "i", "t", "c", "h">> }

\* get_choice with the upper end of the range test off by one
get_choice_off_by_one(read, num_choices) ==
    IF Raised(read) THEN <<"quit", None>>
    ELSE LET raw_input == Lower(Strip(read.line)) IN
         IF raw_input \in QUIT_COMMANDS THEN <<"quit", None>>
         ELSE IF raw_input \in HELP_COMMANDS THEN <<"help", None>>
         ELSE IF raw_input \in STATUS_COMMANDS THEN <<"status", None>>
         ELSE IF raw_input \in THEME_COMMANDS THEN <<"theme_toggle", None>>
         ELSE LET choice == ParseInt(raw_input) IN
              IF choice.ok /\ 1 <= choice.val /\ choice.val <= num_choices + 1
              THEN <<"choice", choice.val>>
              ELSE <<"invalid", None>>

\* get_choice that clamps a number above the range to the last choice
get_choice_clamped(read, num_choices) ==
    IF Raised(read) THEN <<"quit", None>>
    ELSE LET raw_input == Lower(Strip(read.line)) IN
         IF raw_input \in QUIT_COMMANDS THEN <<"quit", None>>
         ELSE IF raw_input \in HELP_COMMANDS THEN <<"help", None>>
         ELSE IF raw_input \in STATUS_COMMANDS THEN <<"status", None>>
         ELSE IF raw_input \in THEME_COMMANDS THEN <<"theme_toggle", None>>
         ELSE LET choice == ParseInt(raw_input) IN
              IF choice.ok /\ 1 <= choice.val
              THEN <<"choice", Min(choice.val, num_choices)>>
              ELSE <<"invalid", None>>

\* InputHandler.get_choice
get_choice(read, num_choices) ==
    IF Raised(read) THEN <<"quit", None>>
    ELSE LET raw_input == Lower(Strip(read.line)) IN
         IF raw_input \in QUIT_COMMANDS THEN <<"quit", None>>
         ELSE IF raw_input \in HELP_COMMANDS THEN <<"help", None>>
         ELSE IF raw_input \in STATUS_COMMANDS THEN <<"status", None>>
         ELSE IF raw_input \in THEME_COMMANDS THEN <<"theme_toggle", None>>
         ELSE LET choice == ParseInt(raw_input) IN
              IF choice.ok /\ 1 <= choice.val /\ choice.val <= num_choices
              THEN <<"choice", choice.val>>
              ELSE <<"invalid", None>>

\* InputHandler.get_text with allow_empty = False; "again" is the recursive
\* call that prompts once more
get_text(read) ==
    IF Raised(read) THEN [tag |-> "None", text |-> <<>>]
    ELSE LET raw_input == Strip(read.line) IN
         IF Lower(raw_input) \in QUIT_COMMANDS THEN [tag |-> "None", text |-> <<>>]
         ELSE IF raw_input = <<>> THEN [tag |-> "again", text |-> <<>>]
         ELSE [tag |-> "text", text |-> raw_input]

\* InputHandler.confirm
confirm(read) ==
    IF Raised(read) THEN FALSE
    ELSE Lower(Strip(read.line)) \in
            { <<>>, <<"y">>, <<"y", "e", "s">>, <<"y", "e", "a", "h">>,
              <<"y", "e", "p">>, <<"o", "k">>, <<"s", "u", "r", "e">> }

-----------------------------------------------------------------------------
(* The certification packs a session is played on *)

XpPerCorrect == 50

MaxHp == 100

HealOnSuccess == 5

ThemeKeys == {"fantasy", "corporate"}

\* a theme's content block of a scenario with n choices
Content(n) == [choices |-> [k \in 1..n |-> "choice"]]

BothThemes(nf, nc) == [t \in ThemeKeys |-> IF t = "fantasy" THEN Content(nf) ELSE Content(nc)]

OnlyTheme(t, n) == [u \in {t} |-> Content(n)]

\* Scenario.__init__ applied to the i-th record of the file of domain d.
\* Pack "plain" is a well-formed pack; pack "defects" carries the authoring
\* defects the loader accepts: a repeated id, a domain field that is not the
\* file's domain, a correct_index beyond the choice list, themes with choice
\* lists of different length, a missing theme.
Scenario(pack, dc, d, i) ==
    IF pack = "plain"
    THEN [id |-> 10 * d + i, domain |-> d, xp_reward |-> 50, hp_penalty |-> 20,
          correct_index |-> (i + 1) % 2, themes |-> BothThemes(2, 2)]
    ELSE IF i = 1
    THEN [id |-> 10 * d + 1, domain |-> d, xp_reward |-> 50, hp_penalty |-> 20,
          correct_index |-> 0, themes |-> OnlyTheme("fantasy", 2)]
    ELSE IF i = 2
    THEN [id |-> 10 * d + 1, domain |-> dc + 1, xp_reward |-> 70, hp_penalty |-> 30,
          correct_index |-> 2, themes |-> BothThemes(2, 3)]
    ELSE [id |-> 10 * d + i, domain |-> 1, xp_reward |-> 50, hp_penalty |-> 20,
          correct_index |-> 1, themes |-> OnlyTheme("corporate", 2)]

Packs == {"plain", "defects"}

\* the number of scenarios authored for domain d: the files of a pack differ
\* in length, each domain one scenario shorter than the one before
PoolLen(d) == IF PoolSize - d + 1 > 0 THEN PoolSize - d + 1 ELSE 0

\* scoring.starting_hp: below max_hp in the pack "plain"; the pack "defects"
\* has it above max_hp, one more thing the loader does not validate
StartingHp(pack) == IF pack = "plain" THEN MaxHp - 2 ELSE MaxHp + 20

\* scoring.titles: pack "plain" lists its thresholds in ascending order with a
\* name per theme; pack "defects" lists them out of order, one entry without
\* a threshold, one without a name for the fantasy theme and two with the
\* same threshold; pack "untitled" has no scoring.titles at all
Titles(pack) ==
    IF pack = "plain"
    THEN << [threshold |-> 0, fantasy |-> "Novice", corporate |-> "Intern"],
            [threshold |-> 100, fantasy |-> "Adept", corporate |-> "Analyst"] >>
    ELSE IF pack = "defects"
    THEN << [threshold |-> 100, fantasy |-> "Adept"],
            [fantasy |-> "Novice"],
            [threshold |-> 50, title |-> "Squire"],
            [threshold |-> 50, fantasy |-> "Page", corporate |-> "Clerk"] >>
    ELSE << >>

\* CertificationConfig as CertificationLoader.load_certification returns it
CertificationConfig(pack, dc, starting_hp, spd) ==
    [ pack |-> pack,
      domain_count |-> dc,
      scenarios |-> [d \in 1..dc |-> [i \in 1..PoolLen(d) |-> Scenario(pack, dc, d, i)]],
      scoring |-> [starting_hp |-> starting_hp, max_hp |-> MaxHp,
                   scenarios_per_domain |-> spd, xp_per_correct |-> XpPerCorrect,
                   titles |-> Titles(pack)],
      intros |-> IF pack = "plain" THEN 1..dc ELSE {} ]

Certifications ==
    { CertificationConfig(pack, dc, StartingHp(pack), spd) :
        pack \in Packs, dc \in 1..MaxDomains, spd \in 1..MaxPerDomain }

-----------------------------------------------------------------------------
(* engine/player.py *)

NoPlayer ==
    [ name |-> <<>>, hp |-> 0, max_hp |-> 0, xp |-> 0, current_domain |-> 0,
      scenarios_completed |-> <<>>, wrong_answers |-> 0, correct_answers |-> 0,
      domain_stats |-> <<>>, _domain_count |-> 0, _titles |-> <<>>, _max_xp |-> 0 ]

\* __post_init__ with range(domain_count + 1): an entry for a domain 0
post_init_from_zero(domain_count) ==
    [i \in 0..domain_count |-> [correct |-> 0, wrong |-> 0]]

\* Player.__post_init__
post_init(domain_count) == [i \in 1..domain_count |-> [correct |-> 0, wrong |-> 0]]

\* Player.from_certification
from_certification(name, cert_config) ==
    LET scoring == cert_config.scoring IN
    [ name |-> name,
      hp |-> scoring.starting_hp,
      max_hp |-> scoring.max_hp,
      xp |-> 0,
      current_domain |-> 1,
      scenarios_completed |-> <<>>,
      wrong_answers |-> 0,
      correct_answers |-> 0,
      domain_stats |-> post_init(cert_config.domain_count),
      _domain_count |-> cert_config.domain_count,
      _titles |-> scoring.titles,
      _max_xp |-> cert_config.domain_count * scoring.scenarios_per_domain
                    * scoring.xp_per_correct ]

\* title_def.get('threshold', 0)
threshold(title_def) ==
    IF "threshold" \in DOMAIN title_def THEN title_def.threshold ELSE 0

\* title_def.get('fantasy', title_def.get('title', 'Unknown'))
fantasy_title(title_def) ==
    IF "fantasy" \in DOMAIN title_def THEN title_def.fantasy
    ELSE IF "title" \in DOMAIN title_def THEN title_def.title
    ELSE "Unknown"

\* title_def.get(theme, title_def.get('fantasy', 'Unknown'))
themed_title(title_def, theme) ==
    IF theme \in DOMAIN title_def THEN title_def[theme]
    ELSE IF "fantasy" \in DOMAIN title_def THEN title_def.fantasy
    ELSE "Unknown"

\* the table scanned in the order it is listed
unsorted_titles(titles) == [k \in 1..Len(titles) |-> k]

\* sorted(titles, key=lambda t: t.get('threshold', 0)): the positions of the
\* table in ascending order of threshold; sorted is stable, so entries with
\* the same threshold keep the order of the table
sorted_titles(titles) ==
    LET before(j, k) == \/ threshold(titles[j]) < threshold(titles[k])
                        \/ threshold(titles[j]) = threshold(titles[k]) /\ j < k
        place(k) == 1 + Cardinality({j \in 1..Len(titles) : before(j, k)})
    IN  [a \in 1..Len(titles) |-> CHOOSE k \in 1..Len(titles) : place(k) = a]

\* the loop that keeps the entries xp has not reached
title_entry_reversed_test(titles, xp) ==
    LET order == sorted_titles(titles)
        hits == {a \in 1..Len(titles) : xp <= threshold(titles[order[a]])}
    IN  IF hits = {} THEN 0
        ELSE order[CHOOSE a \in hits : \A b \in hits : b <= a]

\* the loop of Player.title, Player.get_title_for_theme and
\* CertificationConfig.get_title_for_xp: the position in the table of the
\* last entry, in sorted order, with xp >= threshold; 0 when there is none
title_entry(titles, xp) ==
    LET order == sorted_titles(titles)
        hits == {a \in 1..Len(titles) : xp >= threshold(titles[order[a]])}
    IN  IF hits = {} THEN 0
        ELSE order[CHOOSE a \in hits : \A b \in hits : b <= a]

\* Player.title
title(p) ==
    LET entry == title_entry(p._titles, p.xp)
    IN  IF entry = 0 THEN "Novice" ELSE fantasy_title(p._titles[entry])

\* Player.get_title_for_theme
get_title_for_theme(p, theme) ==
    LET entry == title_entry(p._titles, p.xp)
    IN  IF entry = 0 THEN "Novice" ELSE themed_title(p._titles[entry], theme)

\* CertificationConfig.get_title_for_xp
get_title_for_xp(c, xp, theme) ==
    LET titles == c.scoring.titles
        entry == title_entry(titles, xp)
    IN  IF entry = 0 THEN "Novice" ELSE themed_title(titles[entry], theme)

\* accuracy without the test for no answers: total = 0 is divided by
accuracy_unguarded(p) ==
    [num |-> p.correct_answers * 100, den |-> p.correct_answers + p.wrong_answers]

\* Player.accuracy, as the exact fraction num / den of the float it returns
accuracy(p) ==
    LET total == p.correct_answers + p.wrong_answers
    IN  IF total = 0
        THEN [num |-> 0, den |-> 1]
        ELSE [num |-> p.correct_answers * 100, den |-> total]

\* the status that already reports victory in the last domain
status_at_last_domain(p) ==
    IF p.current_domain >= p._domain_count THEN "VICTORY" ELSE "PLAYING"

\* Player.status
status(p) == IF p.current_domain > p._domain_count THEN "VICTORY" ELSE "PLAYING"

\* take_damage that stops at hp = 0
take_damage_floored(p, amount, domain) ==
    [ p EXCEPT
        !.hp = IF @ - amount < 0 THEN 0 ELSE @ - amount,
        !.wrong_answers = @ + 1,
        !.domain_stats =
            IF domain # 0 /\ domain \in DOMAIN p.domain_stats
            THEN [@ EXCEPT ![domain].wrong = @ + 1]
            ELSE @ ]

\* Player.take_damage
take_damage(p, amount, domain) ==
    [ p EXCEPT
        !.hp = @ - amount,
        !.wrong_answers = @ + 1,
        !.domain_stats =
            IF domain # 0 /\ domain \in DOMAIN p.domain_stats
            THEN [@ EXCEPT ![domain].wrong = @ + 1]
            ELSE @ ]

\* Player.take_damage: the value it returns
take_damage_return(p, amount, domain) == amount

\* gain_xp that takes the amount away
gain_xp_subtracts(p, amount, domain) ==
    [ p EXCEPT
        !.xp = @ - amount,
        !.correct_answers = @ + 1,
        !.domain_stats =
            IF domain # 0 /\ domain \in DOMAIN p.domain_stats
            THEN [@ EXCEPT ![domain].correct = @ + 1]
            ELSE @ ]

\* Player.gain_xp
gain_xp(p, amount, domain) ==
    [ p EXCEPT
        !.xp = @ + amount,
        !.correct_answers = @ + 1,
        !.domain_stats =
            IF domain # 0 /\ domain \in DOMAIN p.domain_stats
            THEN [@ EXCEPT ![domain].correct = @ + 1]
            ELSE @ ]

\* the return value that reports any title above the default one
gain_xp_return_above_default(p, amount, domain) ==
    title(gain_xp(p, amount, domain)) # "Novice"

\* Player.gain_xp: the value it returns, old_title != new_title
gain_xp_return(p, amount, domain) == title(p) # title(gain_xp(p, amount, domain))

\* the return value that echoes the amount asked for
heal_return_requested(p, amount) == amount

\* Player.heal: the value it returns
heal_return(p, amount) == Min(p.max_hp - p.hp, amount)

\* heal without the cap at max_hp
heal_uncapped(p, amount) == [p EXCEPT !.hp = @ + amount]

\* Player.heal
heal(p, amount) ==
    LET actual_heal == Min(p.max_hp - p.hp, amount) IN
    [p EXCEPT !.hp = @ + actual_heal]

\* complete_scenario with its membership test inverted
complete_scenario_inverted(p, scenario_id) ==
    IF scenario_id \in Range(p.scenarios_completed)
    THEN [p EXCEPT !.scenarios_completed = Append(@, scenario_id)]
    ELSE p

\* Player.complete_scenario
complete_scenario(p, scenario_id) ==
    IF scenario_id \notin Range(p.scenarios_completed)
    THEN [p EXCEPT !.scenarios_completed = Append(@, scenario_id)]
    ELSE p

-----------------------------------------------------------------------------
(* engine/theme_manager.py *)

\* DEFAULT_THEMES, in declaration order
DEFAULT_THEMES == <<"fantasy", "corporate">>

\* the certification argument of ThemeManager(): None
NoCertification == [certification |-> "None"]

\* _load_themes_from_config without the fallback to the default themes
load_themes_no_fallback(certification) ==
    IF "presentation" \in DOMAIN certification
    THEN IF "themes" \in DOMAIN certification.presentation
         THEN certification.presentation.themes
         ELSE <<>>
    ELSE DEFAULT_THEMES

\* ThemeManager.__init__ with _load_themes_from_config and
\* _load_default_themes: the theme_keys it leaves.  presentation.themes is
\* the sequence of the declared keys, in declaration order
load_themes(certification) ==
    IF "presentation" \in DOMAIN certification
    THEN LET presentation == certification.presentation
             config_themes == IF "themes" \in DOMAIN presentation
                              THEN presentation.themes ELSE <<>>
         IN  IF config_themes = <<>> THEN DEFAULT_THEMES ELSE config_themes
    ELSE DEFAULT_THEMES

\* ThemeManager.current_theme_key
current_theme_key(keys, index) == IF keys = <<>> THEN "fantasy" ELSE keys[index + 1]

\* toggle_theme without the wrap-around: it sticks at the last theme
toggle_theme_no_wrap(keys, index) ==
    IF keys # <<>> THEN Min(index + 1, Len(keys) - 1) ELSE index

\* ThemeManager.toggle_theme: the new current_index
toggle_theme(keys, index) == IF keys # <<>> THEN (index + 1) % Len(keys) ELSE index

\* toggle_theme returning the key it moved away from
toggle_theme_return_old(keys, index) == current_theme_key(keys, index)

\* ThemeManager.toggle_theme: the value it returns
toggle_theme_return(keys, index) == current_theme_key(keys, toggle_theme(keys, index))

\* ThemeManager.set_theme_by_key: the new current_index
set_theme_by_key(keys, index, theme_key) ==
    IF theme_key \in Range(keys)
    THEN (CHOOSE k \in 1..Len(keys) :
            keys[k] = theme_key /\ \A j \in 1..(k - 1) : keys[j] # theme_key) - 1
    ELSE index

\* ThemeManager.set_theme_by_key: the value it returns
set_theme_by_key_return(keys, index, theme_key) == theme_key \in Range(keys)

\* set_theme_by_index that takes index = len(theme_keys) as valid
set_theme_by_index_inclusive(keys, index, i) ==
    IF 0 <= i /\ i <= Len(keys) THEN i ELSE index

\* ThemeManager.set_theme_by_index: the new current_index
set_theme_by_index(keys, index, i) ==
    IF 0 <= i /\ i < Len(keys) THEN i ELSE index

\* ThemeManager.set_theme_by_index: the value it returns
set_theme_by_index_return(keys, index, i) == 0 <= i /\ i < Len(keys)

-----------------------------------------------------------------------------
(* engine/game.py *)

\* Game._load_scenarios: Game.scenarios, domain -> the authored Scenario objects
scenarios(c) ==
    [domain \in 1..c.domain_count |->
        IF domain \in DOMAIN c.scenarios THEN c.scenarios[domain] ELSE <<>>]

\* Game.scenarios_per_domain
scenarios_per_domain(c) == c.scoring.scenarios_per_domain

\* the Scenario object a reference <<domain, pool position>> stands for
Deref(c, ref) == scenarios(c)[ref[1]][ref[2]]

NoScenario == <<0, 0>>

\* the empty mapping {}
EmptyDict == << >>

\* a key of a mapping read from YAML: the int i, and the str of it
IntKey(i) == <<"int", i>>
StrKey(i) == <<"str", i>>

\* Scenario.__init__: the fields this model reads, with the defaults of
\* data.get
Scenario_init(data) ==
    [ id |-> IF "id" \in DOMAIN data THEN data.id ELSE "unknown",
      failure_text |-> IF "failure_text" \in DOMAIN data THEN data.failure_text ELSE "",
      themes |-> IF "themes" \in DOMAIN data THEN data.themes ELSE EmptyDict ]

\* the content block get_themed_content returns when the scenario has
\* neither the theme asked for nor the fantasy theme
StubContent ==
    [ title |-> "SCENARIO", narrative |-> "", choices |-> << >>,
      success_text |-> "", failure_texts |-> EmptyDict ]

\* get_themed_content that does not fall back to the fantasy theme
get_themed_content_no_fallback(scenario, theme_key) ==
    IF theme_key \in DOMAIN scenario.themes THEN scenario.themes[theme_key]
    ELSE StubContent

\* Scenario.get_themed_content
get_themed_content(scenario, theme_key) ==
    IF theme_key \in DOMAIN scenario.themes THEN scenario.themes[theme_key]
    ELSE IF "fantasy" \in DOMAIN scenario.themes THEN scenario.themes["fantasy"]
    ELSE StubContent

\* isinstance(choice, dict) and choice.get('failure_reason'): a choice is a
\* record whose field dict tells a dict from a plain string
carries_failure_reason(choice) ==
    /\ choice.dict
    /\ "failure_reason" \in DOMAIN choice
    /\ choice.failure_reason # ""

\* get_failure_text that looks at the choice before the failure_texts
get_failure_text_reason_first(scenario, theme_key, chosen_index) ==
    LET content == get_themed_content(scenario, theme_key)
        failure_texts == IF "failure_texts" \in DOMAIN content
                         THEN content.failure_texts ELSE EmptyDict
        choices == IF "choices" \in DOMAIN content THEN content.choices ELSE << >>
    IN  IF /\ chosen_index < Len(choices)
           /\ carries_failure_reason(choices[chosen_index + 1])
        THEN choices[chosen_index + 1].failure_reason
        ELSE IF IntKey(chosen_index) \in DOMAIN failure_texts
        THEN failure_texts[IntKey(chosen_index)]
        ELSE IF StrKey(chosen_index) \in DOMAIN failure_texts
        THEN failure_texts[StrKey(chosen_index)]
        ELSE scenario.failure_text

\* Scenario.get_failure_text, for chosen_index >= 0
get_failure_text(scenario, theme_key, chosen_index) ==
    LET content == get_themed_content(scenario, theme_key)
        failure_texts == IF "failure_texts" \in DOMAIN content
                         THEN content.failure_texts ELSE EmptyDict
        choices == IF "choices" \in DOMAIN content THEN content.choices ELSE << >>
    IN  IF IntKey(chosen_index) \in DOMAIN failure_texts
        THEN failure_texts[IntKey(chosen_index)]
        ELSE IF StrKey(chosen_index) \in DOMAIN failure_texts
        THEN failure_texts[StrKey(chosen_index)]
        ELSE IF /\ chosen_index < Len(choices)
                /\ carries_failure_reason(choices[chosen_index + 1])
        THEN choices[chosen_index + 1].failure_reason
        ELSE scenario.failure_text

\* _select_scenarios_for_domain drawing with replacement (random.choices)
select_scenarios_with_replacement(c, domain) ==
    LET all_domain_scenarios == IF domain \in DOMAIN scenarios(c)
                                THEN scenarios(c)[domain] ELSE <<>>
        count == Min(scenarios_per_domain(c), Len(all_domain_scenarios))
    IN  IF count > 0
        THEN [1..count -> 1..Len(all_domain_scenarios)]
        ELSE {<<>>}

\* the selection that ignores scenarios_per_domain and takes the whole pool
select_scenarios_whole_pool(c, domain) ==
    LET all_domain_scenarios == IF domain \in DOMAIN scenarios(c)
                                THEN scenarios(c)[domain] ELSE <<>>
        count == Len(all_domain_scenarios)
    IN  IF count > 0
        THEN InjectiveSeqs(1..Len(all_domain_scenarios), count)
        ELSE {<<>>}

\* Game._select_scenarios_for_domain: the values random.sample can return
select_scenarios_for_domain(c, domain) ==
    LET all_domain_scenarios == IF domain \in DOMAIN scenarios(c)
                                THEN scenarios(c)[domain] ELSE <<>>
        count == Min(scenarios_per_domain(c), Len(all_domain_scenarios))
    IN  IF count > 0
        THEN InjectiveSeqs(1..Len(all_domain_scenarios), count)
        ELSE {<<>>}

\* _get_next_scenario scanning the selected scenarios from the end
next_unplayed_from_end(c, domain, selected, completed) ==
    LET unplayed == {k \in 1..Len(selected) :
                        scenarios(c)[domain][selected[k]].id \notin Range(completed)}
    IN  IF unplayed = {} THEN None
        ELSE selected[CHOOSE k \in unplayed : \A j \in unplayed : k >= j]

\* Game._get_next_scenario, the loop over the selected scenarios: the pool
\* position of the first one whose id is not completed, None if there is none
next_unplayed(c, domain, selected, completed) ==
    LET unplayed == {k \in 1..Len(selected) :
                        scenarios(c)[domain][selected[k]].id \notin Range(completed)}
    IN  IF unplayed = {} THEN None
        ELSE selected[CHOOSE k \in unplayed : \A j \in unplayed : k <= j]

\* _handle_success with the guard of the heal dropped
handle_success_always_heals(p, scenario) ==
    heal(gain_xp(p, scenario.xp_reward, scenario.domain), HealOnSuccess)

\* Game._handle_success
handle_success(p, scenario) ==
    LET q == gain_xp(p, scenario.xp_reward, scenario.domain) IN
    IF q.hp < q.max_hp THEN heal(q, HealOnSuccess) ELSE q

\* the failure that costs hit points but is not tallied
handle_failure_untallied(p, scenario) ==
    [p EXCEPT !.hp = @ - scenario.hp_penalty]

\* Game._handle_failure
handle_failure(p, scenario) == take_damage(p, scenario.hp_penalty, scenario.domain)

\* the advance that also wipes the experience of the finished domain
advance_domain_resets_xp(p, domain_count) ==
    IF p.current_domain < domain_count
    THEN [player |-> [p EXCEPT !.current_domain = @ + 1, !.xp = 0], advanced |-> TRUE]
    ELSE [player |-> p, advanced |-> FALSE]

\* Game._advance_domain: the player it leaves and the value it returns
advance_domain(p, domain_count) ==
    IF p.current_domain < domain_count
    THEN [player |-> [p EXCEPT !.current_domain = @ + 1], advanced |-> TRUE]
    ELSE [player |-> p, advanced |-> FALSE]

\* the credit that is handed out for the chosen domain as well
skipped_xp_inclusive(c, domain) ==
    domain * (scenarios_per_domain(c) * c.scoring.xp_per_correct)

\* Game._select_starting_domain: the credit for the domains skipped
skipped_xp(c, domain) ==
    (domain - 1) * (scenarios_per_domain(c) * c.scoring.xp_per_correct)

\* the forced game end one domain short
force_game_end_short(p, domain_count) == [p EXCEPT !.current_domain = domain_count]

\* Game._run_scenario, the confirmed quit: "Force game end"
force_game_end(p, domain_count) == [p EXCEPT !.current_domain = domain_count + 1]

\* Game._show_ending, the domain breakdown: the domains that are printed,
\* the tracked domains with at least one attempt
breakdown_domains(p, domain_count) ==
    {domain \in 1..domain_count :
        /\ domain \in DOMAIN p.domain_stats
        /\ p.domain_stats[domain].correct + p.domain_stats[domain].wrong > 0}

\* Game._show_ending: dom_accuracy = (correct / total) * 100, as a fraction
dom_accuracy(p, domain) ==
    [num |-> p.domain_stats[domain].correct * 100,
     den |-> p.domain_stats[domain].correct + p.domain_stats[domain].wrong]

\* Game._show_ending: the mark of a printed domain
domain_mark(p, domain) ==
    IF dom_accuracy(p, domain).num >= 75 * dom_accuracy(p, domain).den
    THEN "passed" ELSE "failed"

\* Game._show_ending: the list weak_domains it collects
weak_domains(p, domain_count) ==
    {domain \in breakdown_domains(p, domain_count) :
        dom_accuracy(p, domain).num < 75 * dom_accuracy(p, domain).den}

\* Game._show_ending, the exam readiness guidance: the band of the accuracy
readiness(p) ==
    LET acc == accuracy(p) IN
    IF acc.num >= 90 * acc.den THEN "STRONG CANDIDATE"
    ELSE IF acc.num >= 80 * acc.den THEN "GOOD FOUNDATION"
    ELSE IF acc.num >= 70 * acc.den THEN "MORE STUDY NEEDED"
    ELSE "ADDITIONAL PREPARATION RECOMMENDED"

\* Game._show_ending: the weak domains the guidance prints
listed_weak_domains(p, domain_count) ==
    IF readiness(p) \in {"GOOD FOUNDATION", "MORE STUDY NEEDED"}
    THEN weak_domains(p, domain_count)
    ELSE {}

-----------------------------------------------------------------------------
(* The session: Game.__init__ followed by Game.run *)

Init ==
    /\ cert \in Certifications
    /\ pc = "select_theme"
    /\ cancelled = FALSE
    /\ theme_keys = DEFAULT_THEMES
    /\ current_index = 0
    /\ player = NoPlayer
    /\ selected_scenarios = <<>>
    /\ current_scenario = NoScenario
    /\ last_read = NoRead
    /\ result = <<"none", None>>
    /\ branch = "none"
    /\ call = NoCall

\* a read of the input stream: after end-of-input every read raises EOFError
Input(read) ==
    /\ read \in Reads
    /\ cancelled => read = EOFError
    /\ cancelled' = (cancelled \/ read = EOFError)

gameVars == <<player, selected_scenarios, current_scenario, last_read, result, branch, call>>

\* Game._select_theme, then Game._show_introduction up to its wait_for_enter
SelectTheme ==
    /\ pc = "select_theme"
    /\ \E read \in Reads :
        /\ Input(read)
        /\ LET choice == get_text(read) IN
           IF choice.tag = "None"
           THEN pc' = "introduction" /\ UNCHANGED current_index
           ELSE IF choice.tag = "text" /\ choice.text = <<"1">>
           THEN /\ current_index' = set_theme_by_key(theme_keys, current_index, "fantasy")
                /\ pc' = "introduction"
           ELSE IF choice.tag = "text" /\ choice.text = <<"2">>
           THEN /\ current_index' = set_theme_by_key(theme_keys, current_index, "corporate")
                /\ pc' = "introduction"
           ELSE UNCHANGED <<pc, current_index>>
    /\ UNCHANGED <<cert, theme_keys, gameVars>>

\* Game._show_introduction: wait_for_enter, then the prompt of _get_player_name
ShowIntroduction ==
    /\ pc = "introduction"
    /\ \E read \in Reads : Input(read)
    /\ pc' = "player_name"
    /\ UNCHANGED <<cert, theme_keys, current_index, gameVars>>

\* Game._get_player_name: run returns when there is no name
GetPlayerName ==
    /\ pc = "player_name"
    /\ \E read \in Reads :
        /\ Input(read)
        /\ LET name == get_text(read) IN
           IF name.tag = "None" THEN pc' = "returned"
           ELSE IF name.tag = "again" THEN UNCHANGED pc
           ELSE pc' = "name_enter"
    /\ UNCHANGED <<cert, theme_keys, current_index, gameVars>>

\* the name every player of the model enters (the name is only displayed)
PlayerName == <<"n">>

\* the run that enters the game loop without the starting-domain selection
CreatePlayer_starts_loop ==
    /\ pc = "name_enter"
    /\ \E read \in Reads : Input(read)
    /\ player' = from_certification(PlayerName, cert)
    /\ pc' = "game_loop"
    /\ UNCHANGED <<cert, theme_keys, current_index, selected_scenarios,
                   current_scenario, last_read, result, branch, call>>

\* the wait_for_enter that ends _get_player_name, then Player.from_certification
\* and the prompt of _select_starting_domain
CreatePlayer ==
    /\ pc = "name_enter"
    /\ \E read \in Reads : Input(read)
    /\ player' = from_certification(PlayerName, cert)
    /\ pc' = "starting_domain"
    /\ UNCHANGED <<cert, theme_keys, current_index, selected_scenarios,
                   current_scenario, last_read, result, branch, call>>

\* Game._show_domain_introduction: the position after it was called
show_domain_introduction(domain_num) ==
    IF domain_num \in cert.intros THEN "intro_enter" ELSE "game_loop"

\* Game._select_starting_domain
SelectStartingDomain ==
    /\ pc = "starting_domain"
    /\ \E read \in Reads :
        /\ Input(read)
        /\ last_read' = read
        /\ LET choice == get_text(read) IN
           IF choice.tag = "None"
           THEN pc' = "game_loop" /\ UNCHANGED player
           ELSE IF choice.tag = "text" /\ choice.text = <<>>
           THEN /\ player' = [player EXCEPT !.current_domain = 1]
                /\ pc' = show_domain_introduction(1)
           ELSE IF /\ choice.tag = "text"
                   /\ IsDigit(choice.text)
                   /\ 1 <= DigitsToInt(choice.text)
                   /\ DigitsToInt(choice.text) <= cert.domain_count
           THEN LET domain == DigitsToInt(choice.text)
                IN  IF domain > 1
                    THEN /\ player' = [player EXCEPT !.current_domain = domain,
                                                      !.xp = skipped_xp(cert, domain)]
                         /\ pc' = "skip_enter"
                    ELSE /\ player' = [player EXCEPT !.current_domain = domain]
                         /\ pc' = show_domain_introduction(domain)
           ELSE UNCHANGED <<pc, player>>
    /\ UNCHANGED <<cert, theme_keys, current_index, selected_scenarios,
                   current_scenario, result, branch, call>>

\* the wait_for_enter after the skip credit, then _show_domain_introduction
SkipEnter ==
    /\ pc = "skip_enter"
    /\ \E read \in Reads : Input(read)
    /\ pc' = show_domain_introduction(player.current_domain)
    /\ UNCHANGED <<cert, theme_keys, current_index, gameVars>>

\* the wait_for_enter of _show_domain_introduction
IntroEnter ==
    /\ pc = "intro_enter"
    /\ \E read \in Reads : Input(read)
    /\ pc' = "game_loop"
    /\ UNCHANGED <<cert, theme_keys, current_index, gameVars>>

\* Game._game_loop from the loop test to the next read.  _get_next_scenario
\* samples the subset of the current domain when the domain has none.
GameLoop ==
    /\ pc = "game_loop"
    /\ IF status(player) # "PLAYING"
       THEN /\ pc' = "ended"
            /\ UNCHANGED <<player, selected_scenarios, current_scenario>>
       ELSE LET domain == player.current_domain IN
            \E sample \in select_scenarios_for_domain(cert, domain) :
              LET selected == IF domain \in DOMAIN selected_scenarios
                              THEN selected_scenarios[domain] ELSE sample
                  scenario == next_unplayed(cert, domain, selected,
                                            player.scenarios_completed)
              IN  /\ selected_scenarios' =
                        [d \in DOMAIN selected_scenarios \cup {domain} |->
                            IF d = domain THEN selected ELSE selected_scenarios[d]]
                  /\ IF scenario # None
                     THEN \* _run_scenario displays the scenario and prompts
                          /\ current_scenario' = <<domain, scenario>>
                          /\ pc' = "choice"
                          /\ UNCHANGED player
                     ELSE LET advance == advance_domain(player, cert.domain_count) IN
                          /\ player' = advance.player
                          /\ UNCHANGED current_scenario
                          /\ IF advance.advanced
                             THEN \* _advance_domain is at its wait_for_enter
                                  pc' = "advance_enter"
                             ELSE \* no domain is left: break, then _show_ending
                                  pc' = "ended"
    /\ last_read' = NoRead
    /\ result' = <<"none", None>>
    /\ branch' = "none"
    /\ UNCHANGED <<cert, cancelled, theme_keys, current_index, call>>

\* the wait_for_enter of _advance_domain, then _show_domain_introduction
AdvanceEnter ==
    /\ pc = "advance_enter"
    /\ \E read \in Reads : Input(read)
    /\ pc' = show_domain_introduction(player.current_domain)
    /\ UNCHANGED <<cert, theme_keys, current_index, gameVars>>

\* Game._run_scenario: one read of get_choice and the branch it takes
RunScenario ==
    /\ pc = "choice"
    /\ \E read \in Reads :
        /\ Input(read)
        /\ LET scenario == Deref(cert, current_scenario)
               content == get_themed_content(scenario,
                              current_theme_key(theme_keys, current_index))
               res == get_choice(read, Len(content.choices))
           IN  /\ last_read' = read
               /\ result' = res
               /\ IF res[1] = "quit"
                  THEN /\ pc' = "confirm"
                       /\ branch' = "quit"
                       /\ UNCHANGED <<player, current_index>>
                  ELSE IF res[1] \in {"help", "status", "invalid"}
                  THEN /\ branch' = res[1]
                       /\ UNCHANGED <<pc, player, current_index>>
                  ELSE IF res[1] = "theme_toggle"
                  THEN /\ current_index' = toggle_theme(theme_keys, current_index)
                       /\ branch' = "theme_toggle"
                       /\ UNCHANGED <<pc, player>>
                  ELSE LET chosen == res[2] - 1 IN
                       /\ IF chosen = scenario.correct_index
                          THEN /\ player' = complete_scenario(
                                                handle_success(player, scenario), scenario.id)
                               /\ branch' = "success"
                          ELSE /\ player' = complete_scenario(
                                                handle_failure(player, scenario), scenario.id)
                               /\ branch' = "failure"
                       \* the choice never changes the status: wait_for_enter
                       /\ pc' = "pause"
                       /\ UNCHANGED current_index
    /\ UNCHANGED <<cert, theme_keys, selected_scenarios, current_scenario, call>>

\* the confirm of a quit command in _run_scenario
ConfirmQuit ==
    /\ pc = "confirm"
    /\ \E read \in Reads :
        /\ Input(read)
        /\ IF confirm(read)
           THEN \* force the game end; the loop breaks and _show_ending runs
                /\ player' = force_game_end(player, cert.domain_count)
                /\ pc' = "ended"
                /\ branch' = "quit_confirmed"
           ELSE /\ pc' = "choice"
                /\ branch' = "quit_declined"
                /\ UNCHANGED player
    /\ UNCHANGED <<cert, theme_keys, current_index, selected_scenarios,
                   current_scenario, last_read, result, call>>

\* the wait_for_enter that ends an iteration of the game loop
Pause ==
    /\ pc = "pause"
    /\ \E read \in Reads : Input(read)
    /\ pc' = "game_loop"
    /\ UNCHANGED <<cert, theme_keys, current_index, gameVars>>

Next ==
    \/ SelectTheme
    \/ ShowIntroduction
    \/ GetPlayerName
    \/ CreatePlayer
    \/ SelectStartingDomain
    \/ SkipEnter
    \/ IntroEnter
    \/ GameLoop
    \/ AdvanceEnter
    \/ RunScenario
    \/ ConfirmQuit
    \/ Pause

Spec == Init /\ [][Next]_vars

\* the player keeps answering: no read blocks forever
FairSpec == Spec /\ WF_vars(Next)

TypeOK ==
    /\ pc \in {"select_theme", "introduction", "player_name", "name_enter",
                "starting_domain", "skip_enter", "intro_enter", "game_loop",
                "advance_enter", "choice", "confirm", "pause", "ended", "returned",
                "no_session", "theme_manager", "scenario"}
    /\ current_index \in 0..(Len(theme_keys) - 1)

-----------------------------------------------------------------------------
(* engine/player.py: the Player exercised on its own, outside a session *)

\* hp of the Player under test: below, at and above max_hp
PlayerHps == {MaxHp - 10, MaxHp, MaxHp + 20}

HealAmounts == {-5, 5, 30}

DamageAmounts == {20, MaxHp + 30}

XpAmounts == {-50, 0, 50, 100}

ScenarioIds == {11, 12}

\* the domain argument: omitted, tracked, and beyond the tracked ones
DomainArgs == {None, 1, MaxDomains, MaxDomains + 1}

\* the packs of the sessions, and one without a title table
PlayerPacks == Packs \cup {"untitled"}

PlayerCertifications ==
    { CertificationConfig(pack, MaxDomains, hp, 1) : pack \in PlayerPacks, hp \in PlayerHps }

\* a Player fresh from Player.from_certification
PlayerInit ==
    /\ cert \in PlayerCertifications
    /\ pc = "no_session"
    /\ cancelled = FALSE
    /\ theme_keys = DEFAULT_THEMES
    /\ current_index = 0
    /\ player = from_certification(PlayerName, cert)
    /\ selected_scenarios = <<>>
    /\ current_scenario = NoScenario
    /\ last_read = NoRead
    /\ result = <<"none", None>>
    /\ branch = "none"
    /\ call = NoCall

sessionVars == <<cert, pc, cancelled, theme_keys, current_index, selected_scenarios,
                 current_scenario, last_read, result, branch>>

\* player.heal(amount)
Heal ==
    /\ pc = "no_session"
    /\ call.n < MaxCalls
    /\ \E amount \in HealAmounts :
        /\ player' = heal(player, amount)
        /\ call' = [op |-> "heal", n |-> call.n + 1, amount |-> amount,
                    domain |-> None, ret |-> heal_return(player, amount)]
    /\ UNCHANGED sessionVars

\* player.take_damage(amount, domain)
TakeDamage ==
    /\ pc = "no_session"
    /\ call.n < MaxCalls
    /\ \E amount \in DamageAmounts, domain \in DomainArgs :
        /\ player' = take_damage(player, amount, domain)
        /\ call' = [op |-> "take_damage", n |-> call.n + 1, amount |-> amount,
                    domain |-> domain,
                    ret |-> take_damage_return(player, amount, domain)]
    /\ UNCHANGED sessionVars

\* player.gain_xp(amount, domain)
GainXp ==
    /\ pc = "no_session"
    /\ call.n < MaxCalls
    /\ \E amount \in XpAmounts, domain \in DomainArgs :
        /\ player' = gain_xp(player, amount, domain)
        /\ call' = [op |-> "gain_xp", n |-> call.n + 1, amount |-> amount,
                    domain |-> domain,
                    ret |-> gain_xp_return(player, amount, domain)]
    /\ UNCHANGED sessionVars

\* player.complete_scenario(scenario_id)
CompleteScenario ==
    /\ pc = "no_session"
    /\ call.n < MaxCalls
    /\ \E scenario_id \in ScenarioIds :
        /\ player' = complete_scenario(player, scenario_id)
        /\ call' = [op |-> "complete_scenario", n |-> call.n + 1,
                    amount |-> scenario_id, domain |-> None, ret |-> None]
    /\ UNCHANGED sessionVars

PlayerNext ==
    \/ Heal
    \/ TakeDamage
    \/ GainXp
    \/ CompleteScenario

PlayerSpec == PlayerInit /\ [][PlayerNext]_vars

-----------------------------------------------------------------------------
(* engine/theme_manager.py: the ThemeManager exercised on its own *)

\* the keys a certification may declare, and one that none declares
AllThemeKeys == <<"fantasy", "corporate", "noir", "space">>

\* presentation.themes: nothing, one theme, ..., MaxThemes themes, and the
\* built-in pair in the other order
DeclaredThemes ==
    {SubSeq(AllThemeKeys, 1, n) : n \in 0..MaxThemes} \cup {<<"corporate", "fantasy">>}

KeyArgs == Range(AllThemeKeys) \cup {"unknown"}

IndexArgs == -1..(MaxThemes + 1)

\* ThemeManager(certification): no certification, a presentation without a
\* themes entry, or a presentation that declares themes
ThemeInit ==
    /\ \/ cert = NoCertification
       \/ cert = [presentation |-> [game_title |-> "CertQuest"]]
       \/ \E themes \in DeclaredThemes : cert = [presentation |-> [themes |-> themes]]
    /\ pc = "theme_manager"
    /\ cancelled = FALSE
    /\ theme_keys = load_themes(cert)
    /\ current_index = 0
    /\ player = NoPlayer
    /\ selected_scenarios = <<>>
    /\ current_scenario = NoScenario
    /\ last_read = NoRead
    /\ result = <<"none", None>>
    /\ branch = "none"
    /\ call = NoCall

themeUnchanged == <<cert, pc, cancelled, theme_keys, player, selected_scenarios,
                    current_scenario, last_read, result, branch>>

\* theme_manager.toggle_theme()
ToggleTheme ==
    /\ pc = "theme_manager"
    /\ call.n < MaxCalls
    /\ current_index' = toggle_theme(theme_keys, current_index)
    /\ call' = [op |-> "toggle_theme", n |-> call.n + 1, amount |-> 0,
                domain |-> None, ret |-> toggle_theme_return(theme_keys, current_index)]
    /\ UNCHANGED themeUnchanged

\* theme_manager.set_theme_by_key(theme_key)
SetThemeByKey ==
    /\ pc = "theme_manager"
    /\ call.n < MaxCalls
    /\ \E theme_key \in KeyArgs :
        /\ current_index' = set_theme_by_key(theme_keys, current_index, theme_key)
        /\ call' = [op |-> "set_theme_by_key", n |-> call.n + 1, amount |-> theme_key,
                    domain |-> None,
                    ret |-> set_theme_by_key_return(theme_keys, current_index, theme_key)]
    /\ UNCHANGED themeUnchanged

\* theme_manager.set_theme_by_index(index)
SetThemeByIndex ==
    /\ pc = "theme_manager"
    /\ call.n < MaxCalls
    /\ \E i \in IndexArgs :
        /\ current_index' = set_theme_by_index(theme_keys, current_index, i)
        /\ call' = [op |-> "set_theme_by_index", n |-> call.n + 1, amount |-> i,
                    domain |-> None,
                    ret |-> set_theme_by_index_return(theme_keys, current_index, i)]
    /\ UNCHANGED themeUnchanged

ThemeNext ==
    \/ ToggleTheme
    \/ SetThemeByKey
    \/ SetThemeByIndex

ThemeSpec == ThemeInit /\ [][ThemeNext]_vars

-----------------------------------------------------------------------------
(* engine/game.py: a Scenario exercised on its own *)

\* a choice given as a plain string, as a dict without a failure_reason, and
\* as a dict with one (the legacy format)
StrChoice == [dict |-> FALSE, text |-> "choice"]

DictChoice == [dict |-> TRUE, text |-> "choice"]

LegacyChoice(reason) == [dict |-> TRUE, text |-> "choice", failure_reason |-> reason]

\* the data of the scenarios under test:
\*   1  only a generic failure text, no themes at all
\*   2  only a generic failure text, a fantasy block without failure_texts
\*   3  both themes: fantasy with int-keyed failure_texts and legacy choices,
\*      corporate with str-keyed failure_texts and plain choices
\*   4  only a corporate block, failure_texts with an int and a str key for
\*      the same index
\*   5  no generic failure text, legacy choices with an empty failure_reason
ScenarioData ==
    << [ id |-> "s1", failure_text |-> "generic" ],
       [ id |-> "s2", failure_text |-> "generic",
         themes |-> [t \in {"fantasy"} |->
                        [narrative |-> "f", choices |-> <<StrChoice, DictChoice>>]] ],
       [ id |-> "s3", failure_text |-> "generic",
         themes |-> [t \in {"fantasy", "corporate"} |->
                        IF t = "fantasy"
                        THEN [narrative |-> "f",
                              choices |-> <<LegacyChoice("r0"), LegacyChoice("r1"),
                                            DictChoice>>,
                              failure_texts |-> [k \in {IntKey(0)} |-> "f0"]]
                        ELSE [narrative |-> "c",
                              choices |-> <<StrChoice, StrChoice>>,
                              failure_texts |-> [k \in {StrKey(1), StrKey(3)} |->
                                                    IF k = StrKey(1) THEN "c1" ELSE "c3"]]] ],
       [ id |-> "s4", failure_text |-> "generic",
         themes |-> [t \in {"corporate"} |->
                        [narrative |-> "c",
                         choices |-> <<LegacyChoice("r0")>>,
                         failure_texts |-> [k \in {IntKey(0), StrKey(0)} |->
                                                IF k = IntKey(0) THEN "i0" ELSE "s0"]]] ],
       [ themes |-> [t \in {"fantasy"} |->
                        [narrative |-> "f",
                         choices |-> <<LegacyChoice(""), LegacyChoice("r1")>>,
                         failure_texts |-> EmptyDict]] ] >>

\* the theme asked for: the built-in ones and one no scenario has
ThemeArgs == {"fantasy", "corporate", "noir"}

\* chosen_index: a 0-based position, within the choice lists and beyond
ChosenIndexes == 0..3

\* Game._load_scenarios: one domain holding the scenarios under test
ScenarioSpecInit ==
    /\ cert = [ domain_count |-> 1,
                scenarios |-> << [i \in 1..Len(ScenarioData) |->
                                    Scenario_init(ScenarioData[i])] >> ]
    /\ pc = "scenario"
    /\ cancelled = FALSE
    /\ theme_keys = DEFAULT_THEMES
    /\ current_index = 0
    /\ player = NoPlayer
    /\ selected_scenarios = <<>>
    /\ current_scenario \in {<<1, i>> : i \in 1..Len(ScenarioData)}
    /\ last_read = NoRead
    /\ result = <<"none", None>>
    /\ branch = "none"
    /\ call = NoCall

scenarioUnchanged == <<cert, pc, cancelled, theme_keys, current_index, player,
                       selected_scenarios, current_scenario, last_read, result, branch>>

\* scenario.get_themed_content(theme)
GetThemedContent ==
    /\ pc = "scenario"
    /\ call.n < MaxCalls
    /\ \E theme \in ThemeArgs :
        call' = [op |-> "get_themed_content", n |-> call.n + 1, theme |-> theme,
                 chosen_index |-> None,
                 ret |-> get_themed_content(Deref(cert, current_scenario), theme)]
    /\ UNCHANGED scenarioUnchanged

\* scenario.get_failure_text(theme, chosen_index)
GetFailureText ==
    /\ pc = "scenario"
    /\ call.n < MaxCalls
    /\ \E theme \in ThemeArgs, chosen_index \in ChosenIndexes :
        call' = [op |-> "get_failure_text", n |-> call.n + 1, theme |-> theme,
                 chosen_index |-> chosen_index,
                 ret |-> get_failure_text(Deref(cert, current_scenario), theme,
                                          chosen_index)]
    /\ UNCHANGED scenarioUnchanged

ScenarioNext ==
    \/ GetThemedContent
    \/ GetFailureText

ScenarioSpec == ScenarioSpecInit /\ [][ScenarioNext]_vars

-----------------------------------------------------------------------------
(* Properties of a turn *)

\* the scenario the prompt is about, and the choice list it shows
Pending == Deref(cert, current_scenario)

Shown == get_themed_content(Pending, current_theme_key(theme_keys, current_index)).choices

\* a step of _run_scenario that resolves the turn by a numeric choice
Answered == pc = "choice" /\ pc' = "pause"

\* the domain_stats after one more answer of the given kind for the domain
Tallied(stats, domain, kind) ==
    [d \in DOMAIN stats |->
        IF d = domain
        THEN IF kind = "correct"
             THEN [correct |-> stats[d].correct + 1, wrong |-> stats[d].wrong]
             ELSE [correct |-> stats[d].correct, wrong |-> stats[d].wrong + 1]
        ELSE stats[d]]

\* C1: a numeric choice k resolves the turn: when k - 1 is the correct_index
\* the success branch runs (xp grows by xp_reward, the answer is tallied as
\* correct, hp grows by min(5, max_hp - hp) if hp < max_hp and is untouched
\* otherwise); in every other case the failure branch runs (hp drops by
\* hp_penalty, the answer is tallied as wrong, xp is untouched).
C1_NumericChoiceResolvesTurn ==
    [][ Answered =>
          /\ result'[1] = "choice"
          /\ result'[2] \in 1..Len(Shown)
          /\ IF result'[2] - 1 = Pending.correct_index
             THEN /\ branch' = "success"
                  /\ player'.xp = player.xp + Pending.xp_reward
                  /\ player'.correct_answers = player.correct_answers + 1
                  /\ player'.wrong_answers = player.wrong_answers
                  /\ player'.domain_stats =
                        Tallied(player.domain_stats, Pending.domain, "correct")
                  /\ player'.hp = IF player.hp < player.max_hp
                                  THEN Min(player.hp + 5, player.max_hp)
                                  ELSE player.hp
             ELSE /\ branch' = "failure"
                  /\ player'.hp = player.hp - Pending.hp_penalty
                  /\ player'.wrong_answers = player.wrong_answers + 1
                  /\ player'.correct_answers = player.correct_answers
                  /\ player'.domain_stats =
                        Tallied(player.domain_stats, Pending.domain, "wrong")
                  /\ player'.xp = player.xp ]_vars

\* after a wrong answer, a correct answer earned its reward and healed 5
C1_Witness ==
    /\ pc = "pause"
    /\ branch = "success"
    /\ result[2] - 1 = Pending.correct_index
    /\ player.wrong_answers = 1
    /\ player.correct_answers = 1
    /\ player.hp = cert.scoring.starting_hp - 20 + 5
    /\ player.xp = Pending.xp_reward

\* C2: a turn resolved by a numeric choice adds exactly the scenario's id to
\* scenarios_completed, which grows by one; no other step changes it.
C2_CompletedGrowsByOne ==
    [][ IF Answered
        THEN /\ player'.scenarios_completed =
                    Append(player.scenarios_completed, Pending.id)
             /\ Pending.id \notin Range(player.scenarios_completed)
             /\ Cardinality(Range(player'.scenarios_completed)) =
                    Cardinality(Range(player.scenarios_completed)) + 1
        ELSE player'.scenarios_completed = player.scenarios_completed ]_vars

C2_Witness ==
    /\ pc = "pause"
    /\ branch = "failure"
    /\ Len(player.scenarios_completed) = 2
    /\ player.scenarios_completed[2] = Pending.id

\* C3: hp <= max_hp in every state of a session in which the Player exists.
C3_HpNeverAboveMax == player # NoPlayer => player.hp <= player.max_hp

\* C4: _show_ending runs only when the status is not PLAYING.
C4_EndingOnlyWhenNotPlaying == pc = "ended" => status(player) # "PLAYING"

\* C5: once the input stream is cancelled for good, the session terminates.
C5_CancelledSessionTerminates == cancelled ~> pc \in {"ended", "returned"}

C7_ToggleChangesOnlyTheme ==
    [][ (pc = "choice" /\ result'[1] = "theme_toggle") =>
          /\ current_index' = (current_index + 1) % Len(theme_keys)
          /\ theme_keys' = theme_keys
          /\ player' = player
          /\ current_scenario' = current_scenario
          /\ selected_scenarios' = selected_scenarios
          /\ pc' = "choice" ]_vars

\* two toggles in a row, the second back to the first theme, in mid game
C7_Witness ==
    /\ pc = "choice"
    /\ branch = "theme_toggle"
    /\ current_index = 0
    /\ player.scenarios_completed # <<>>

\* the lines of the model that are neither a command nor a number in 1..n
InvalidLine(line, n) ==
    \/ line \in { <<>>, <<"x">>, <<"y">>, <<"-", "1">> }
    \/ line \in { <<"1">>, <<" ", "1">> } /\ n < 1
    \/ line = <<"2">> /\ n < 2
    \/ line = <<"3">> /\ n < 3

HelpOrStatusLine(line) == line \in { <<"h">>, <<"s">> }

\* C8: an invalid line, a help query and a status query change nothing: the
\* player, the theme, the subsets and the pending scenario stay and the same
\* prompt is shown again; the line is not resolved as a success or a failure.
C8_InvalidInputChangesNothing ==
    [][ ( /\ pc = "choice"
          /\ last_read'.kind = "line"
          /\ InvalidLine(last_read'.line, Len(Shown)) \/ HelpOrStatusLine(last_read'.line) ) =>
          /\ result'[1] = IF last_read'.line = <<"h">> THEN "help"
                          ELSE IF last_read'.line = <<"s">> THEN "status"
                          ELSE "invalid"
          /\ branch' \notin {"success", "failure"}
          /\ player' = player
          /\ current_index' = current_index
          /\ theme_keys' = theme_keys
          /\ selected_scenarios' = selected_scenarios
          /\ current_scenario' = current_scenario
          /\ pc' = "choice" ]_vars

\* a number one past the choice list was rejected in mid game
C8_Witness ==
    /\ pc = "choice"
    /\ branch = "invalid"
    /\ last_read.line = <<"3">>
    /\ Len(Shown) = 2
    /\ player.scenarios_completed # <<>>

\* the ids of the scenarios of a selected subset
SubsetIds(domain, selected) ==
    {scenarios(cert)[domain][selected[k]].id : k \in 1..Len(selected)}

\* C9: the scenario _get_next_scenario hands to the loop is the first one of
\* the current domain's subset, in the subset's order, whose id is not
\* completed; it hands over none exactly when every id of the subset is
\* completed; the order of a subset that exists is the one it was given.
C9_NextIsFirstUnplayed ==
    [][ (pc = "game_loop" /\ status(player) = "PLAYING") =>
          LET domain == player.current_domain
              selected == selected_scenarios'[domain]
              completed == Range(player.scenarios_completed)
          IN  /\ domain \in DOMAIN selected_scenarios =>
                    selected = selected_scenarios[domain]
              /\ (pc' = "choice") <=> ~(SubsetIds(domain, selected) \subseteq completed)
              /\ pc' = "choice" =>
                    \E k \in 1..Len(selected) :
                        /\ current_scenario' = <<domain, selected[k]>>
                        /\ scenarios(cert)[domain][selected[k]].id \notin completed
                        /\ \A j \in 1..(k - 1) :
                              scenarios(cert)[domain][selected[j]].id \in completed ]_vars

\* the second scenario of a subset is pending, the first one being completed
C9_Witness ==
    /\ pc = "choice"
    /\ player.current_domain \in DOMAIN selected_scenarios
    /\ Len(selected_scenarios[player.current_domain]) >= 2
    /\ current_scenario[2] = selected_scenarios[player.current_domain][2]
    /\ Len(player.scenarios_completed) = 1

\* C10: a domain's subset is sampled when a turn first reaches the domain
\* and never again; it has min(scenarios_per_domain, pool size) scenarios
\* of the domain's pool, none of them twice, and never changes afterwards.
C10_SubsetSampledOnce ==
    [][ /\ \A d \in DOMAIN selected_scenarios :
              /\ d \in DOMAIN selected_scenarios'
              /\ selected_scenarios'[d] = selected_scenarios[d]
        /\ \A d \in DOMAIN selected_scenarios' :
              LET selected == selected_scenarios'[d]
                  pool == scenarios(cert)[d]
              IN  /\ Len(selected) = Min(cert.scoring.scenarios_per_domain, Len(pool))
                  /\ \A k \in 1..Len(selected) : selected[k] \in 1..Len(pool)
                  /\ \A j, k \in 1..Len(selected) : j # k => selected[j] # selected[k]
        /\ \A d \in DOMAIN selected_scenarios' \ DOMAIN selected_scenarios :
              pc = "game_loop" /\ d = player.current_domain
        /\ pc' = "choice" => current_scenario'[1] \in DOMAIN selected_scenarios' ]_vars

\* the session ended with a subset for two domains, the first one a proper
\* part of its pool
C10_Witness ==
    /\ pc = "ended"
    /\ DOMAIN selected_scenarios = {1, 2}
    /\ Len(selected_scenarios[1]) = 1
    /\ Len(scenarios(cert)[1]) >= 2
    /\ Len(selected_scenarios[2]) = Len(scenarios(cert)[2])
    /\ Len(player.scenarios_completed) = 2

\* a step of _game_loop that finds the current domain exhausted and calls
\* _advance_domain
Exhausted == pc = "game_loop" /\ status(player) = "PLAYING" /\ pc' # "choice"

\* C11: _advance_domain on an exhausted domain below the last one raises
\* current_domain by exactly 1 and leaves hp, xp, correct_answers,
\* wrong_answers, domain_stats and scenarios_completed as they were; on the
\* last domain it changes nothing of the player and the loop breaks because no
\* domain is left.
C11_AdvanceChangesOnlyDomain ==
    [][Exhausted =>
        IF player.current_domain < cert.domain_count
        THEN /\ player'.current_domain = player.current_domain + 1
             /\ player'.hp = player.hp
             /\ player'.xp = player.xp
             /\ player'.correct_answers = player.correct_answers
             /\ player'.wrong_answers = player.wrong_answers
             /\ player'.domain_stats = player.domain_stats
             /\ player'.scenarios_completed = player.scenarios_completed
             /\ pc' = "advance_enter"
        ELSE /\ player.current_domain = cert.domain_count
             /\ player' = player
             /\ pc' = "ended"]_vars

\* the second domain is entered by advancing, with the answers of the first
\* domain still on the record
C11_Witness ==
    /\ pc = "advance_enter"
    /\ player.current_domain = 2
    /\ player.xp > 0
    /\ player.wrong_answers > 0
    /\ Len(player.scenarios_completed) = 2

\* the line a step of _select_starting_domain read, stripped
StartingLine == Strip(last_read'.line)

\* a step of _select_starting_domain that read a line which is no quit command
StartingDomainRead ==
    /\ pc = "starting_domain"
    /\ last_read'.kind = "line"
    /\ Lower(StartingLine) \notin QUIT_COMMANDS

\* the line names a domain 1..domain_count
NamesDomain(line) ==
    IsDigit(line) /\ 1 <= DigitsToInt(line) /\ DigitsToInt(line) <= cert.domain_count

\* C12: at the starting-domain prompt a number t in 1..domain_count selects
\* domain t (current_domain = t, xp = (t - 1) * scenarios_per_domain *
\* xp_per_correct) and the empty line selects domain 1 with xp = 0; every
\* other line changes nothing of the player and the prompt is shown again.
C12_StartingDomainSelection ==
    [][StartingDomainRead =>
        IF StartingLine = <<>>
        THEN /\ player'.current_domain = 1
             /\ player'.xp = 0
             /\ pc' # "starting_domain"
        ELSE IF NamesDomain(StartingLine)
        THEN /\ player'.current_domain = DigitsToInt(StartingLine)
             /\ player'.xp = (DigitsToInt(StartingLine) - 1)
                                * cert.scoring.scenarios_per_domain
                                * cert.scoring.xp_per_correct
             /\ pc' # "starting_domain"
        ELSE /\ player' = player
             /\ pc' = "starting_domain"]_vars

\* C13: xp changes only where it is granted: the starting-domain selection
\* sets it to the credit for the skipped domains, a correct answer adds the
\* scenario's xp_reward, and no other step (wrong answer, theme toggle, help,
\* status, invalid input, natural advance, quit) changes it.
C13_XpOnlyFromCreditAndRewards ==
    [][IF Answered /\ branch' = "success"
       THEN player'.xp = player.xp + Pending.xp_reward
       ELSE IF pc = "starting_domain" /\ pc' = "skip_enter"
       THEN /\ player.xp = 0
            /\ player'.xp = (player'.current_domain - 1)
                                * cert.scoring.scenarios_per_domain
                                * cert.scoring.xp_per_correct
       ELSE player'.xp = player.xp]_vars

\* a session that skipped the first domain, then answered one scenario
\* correctly: xp is the credit plus that one reward
C13_Witness ==
    /\ pc = "pause"
    /\ branch = "success"
    /\ player.current_domain = 2
    /\ player.correct_answers = 1
    /\ player.xp = cert.scoring.scenarios_per_domain * cert.scoring.xp_per_correct
                    + Pending.xp_reward

\* C14: once the Player exists, 0 <= current_domain <= domain_count + 1, and
\* status is VICTORY exactly when current_domain > domain_count and PLAYING
\* otherwise.
C14_DomainRangeAndStatus ==
    player # NoPlayer =>
        /\ 0 <= player.current_domain
        /\ player.current_domain <= cert.domain_count + 1
        /\ status(player) = "VICTORY" <=> player.current_domain > cert.domain_count
        /\ status(player) = "PLAYING" <=> player.current_domain <= cert.domain_count

\* the victory sentinel is reached in the last domain and the session ends
C14_Witness ==
    /\ pc = "ended"
    /\ player.current_domain = cert.domain_count + 1
    /\ status(player) = "VICTORY"

\* a call of the named method on the Player: call' holds its arguments and
\* the value it returned
Called(op) == call'.n = call.n + 1 /\ call'.op = op

\* C15: a heal(amount) on a Player with hp <= max_hp leaves hp <= max_hp,
\* whatever the integer amount; so a Player that starts with hp <= max_hp
\* keeps hp <= max_hp through every sequence of heal calls.
C15_HealKeepsHpCap ==
    [][Called("heal") /\ player.hp <= player.max_hp
            => player'.hp <= player'.max_hp]_vars

\* two heals in a row on a Player that started below max_hp: hp is at the cap
C15_Witness ==
    /\ call.op = "heal"
    /\ call.n = 2
    /\ call.amount = 30
    /\ cert.scoring.starting_hp < player.max_hp
    /\ player.wrong_answers = 0
    /\ player.hp = player.max_hp

\* C16: heal(amount) on hp < max_hp returns min(max_hp - hp, amount), raises
\* hp by exactly the value returned and changes no other field.
C16_HealReturnsActualHeal ==
    [][Called("heal") /\ player.hp < player.max_hp =>
        /\ call'.ret = Min(player.max_hp - player.hp, call'.amount)
        /\ player'.hp = player.hp + call'.ret
        /\ [player' EXCEPT !.hp = 0] = [player EXCEPT !.hp = 0]]_vars

\* heal(30) with hp = 90 and max_hp = 100 returned 10 and left hp = 100
C16_Witness ==
    /\ call = [op |-> "heal", n |-> 1, amount |-> 30, domain |-> None, ret |-> 10]
    /\ cert.scoring.starting_hp = 90
    /\ player.max_hp = 100
    /\ player.hp = 100

\* C17: heal(amount) with amount > 0 on a Player whose hp is at or above
\* max_hp is a no-op: it returns 0 and leaves hp as it was.
C17_HealAtOrAboveMaxIsNoOp ==
    [][Called("heal") /\ call'.amount > 0 /\ player.hp >= player.max_hp =>
        /\ call'.ret = 0
        /\ player'.hp = player.hp]_vars

\* C18: take_damage(amount, domain) subtracts amount from hp without a
\* floor, adds 1 to wrong_answers, adds 1 to domain_stats[domain].wrong when
\* the domain is tracked and touches no entry of domain_stats otherwise,
\* returns amount, and leaves every other field (xp, correct_answers,
\* current_domain, scenarios_completed) as it was.
C18_TakeDamage ==
    [][Called("take_damage") =>
        /\ player'.hp = player.hp - call'.amount
        /\ player'.wrong_answers = player.wrong_answers + 1
        /\ player'.domain_stats =
                IF call'.domain \in 1..player._domain_count
                THEN Tallied(player.domain_stats, call'.domain, "wrong")
                ELSE player.domain_stats
        /\ call'.ret = call'.amount
        /\ player'.xp = player.xp
        /\ player'.correct_answers = player.correct_answers
        /\ player'.current_domain = player.current_domain
        /\ player'.scenarios_completed = player.scenarios_completed]_vars

\* hp = 100, take_damage(20, 1), then a second blow that takes hp below 0
C18_Witness ==
    /\ call.op = "take_damage"
    /\ call.n = 2
    /\ cert.scoring.starting_hp = 100
    /\ player.hp = 80 - call.amount
    /\ player.hp < 0
    /\ player.wrong_answers = 2
    /\ player.domain_stats[1].wrong = 1

\* C19: gain_xp(amount, domain) adds amount to xp, adds 1 to correct_answers
\* and, for a tracked domain, to domain_stats[domain].correct, leaves hp and
\* wrong_answers as they were, and returns true exactly when the title for
\* the xp before the call differs from the title for the xp after it.
C19_GainXp ==
    [][Called("gain_xp") =>
        /\ player'.xp = player.xp + call'.amount
        /\ player'.correct_answers = player.correct_answers + 1
        /\ call'.domain \in 1..player._domain_count =>
                player'.domain_stats =
                    Tallied(player.domain_stats, call'.domain, "correct")
        /\ player'.hp = player.hp
        /\ player'.wrong_answers = player.wrong_answers
        /\ call'.ret = (title(player) # title(player'))]_vars

\* xp = 0 with thresholds 0 -> Novice and 100 -> Adept: gain_xp(100, 1)
\* returned true and the title is Adept
C19_Witness ==
    /\ call = [op |-> "gain_xp", n |-> 1, amount |-> 100, domain |-> 1, ret |-> TRUE]
    /\ cert.pack = "plain"
    /\ player.xp = 100
    /\ title(player) = "Adept"

\* C20: a gain_xp with a non-negative amount never lowers xp, and leaves
\* xp >= 0 when xp was >= 0; so xp never decreases and stays >= 0 from 0
\* through every sequence of such calls.
C20_XpMonotone ==
    [][Called("gain_xp") /\ call'.amount >= 0 =>
        /\ player'.xp >= player.xp
        /\ player.xp >= 0 => player'.xp >= 0]_vars

\* two gains in a row from xp = 0, the second one of nothing
C20_Witness ==
    /\ call.op = "gain_xp"
    /\ call.n = 2
    /\ call.amount = 0
    /\ player.correct_answers = 2
    /\ player.xp = 50

\* the number of places of the list that hold the id
Occurrences(list, id) == Cardinality({k \in 1..Len(list) : list[k] = id})

\* C21: complete_scenario(id) leaves the id in scenarios_completed exactly
\* once and every other entry where it was; called for an id that is already
\* in the list it leaves the list exactly as it was, so no id ever occurs
\* twice after any sequence of calls.
C21_CompleteScenarioIdempotent ==
    [][Called("complete_scenario") =>
        /\ Occurrences(player'.scenarios_completed, call'.amount) = 1
        /\ call'.amount \in Range(player.scenarios_completed)
                => player'.scenarios_completed = player.scenarios_completed
        /\ \A id \in ScenarioIds :
                Occurrences(player.scenarios_completed, id) <= 1
                    => Occurrences(player'.scenarios_completed, id) <= 1
        /\ complete_scenario(player', call'.amount) = player']_vars

\* complete_scenario(11) called twice in a row: the list holds 11 once
C21_Witness ==
    /\ call.op = "complete_scenario"
    /\ call.n = 2
    /\ call.amount = 11
    /\ player.scenarios_completed = <<11>>
    /\ player.hp = MaxHp - 10
    /\ player.xp = 0
    /\ player.correct_answers + player.wrong_answers = 0

\* the entry at position e1 of the table is not above the one at e2; position
\* 0 stands for the default "Novice", which is below every entry
NotAbove(titles, e1, e2) ==
    \/ e1 = 0
    \/ e2 # 0 /\ threshold(titles[e1]) <= threshold(titles[e2])

\* C22: for a fixed table the title is non-decreasing in xp: when xp grows
\* (or stays) the threshold of the entry that yields the title does not
\* drop, the default "Novice" counting as below every entry.
C22_TitleMonotone ==
    [][Called("gain_xp") /\ player.xp <= player'.xp =>
        /\ player'._titles = player._titles
        /\ NotAbove(player._titles, title_entry(player._titles, player.xp),
                    title_entry(player._titles, player'.xp))]_vars

\* on the table listed out of order, xp 0 -> 50 took the title from the entry
\* without a threshold to one of threshold 50
C22_Witness ==
    /\ call.op = "gain_xp"
    /\ call.amount = 50
    /\ call.ret = TRUE
    /\ cert.pack = "defects"
    /\ player.xp = 50
    /\ threshold(player._titles[title_entry(player._titles, player.xp)]) = 50

\* the themes a title is asked for: the two built-in ones and one that no
\* entry names
TitleThemes == ThemeKeys \cup {"noir"}

\* C23: the title is the display name of an entry whose threshold is the
\* highest among the entries with threshold <= xp, in whatever order the
\* table lists them, and "Novice" when no entry has threshold <= xp or the
\* table is empty; it is computed from the current xp and the table of the
\* certification on every read, by Player.title, Player.get_title_for_theme
\* and CertificationConfig.get_title_for_xp alike.
C23_TitleIsHighestReached ==
    pc = "no_session" =>
        LET titles == cert.scoring.titles
            reached == {k \in 1..Len(titles) : player.xp >= threshold(titles[k])}
            entry == title_entry(titles, player.xp)
        IN  /\ player._titles = titles
            /\ IF reached = {}
               THEN /\ title(player) = "Novice"
                    /\ \A theme \in TitleThemes :
                        /\ get_title_for_theme(player, theme) = "Novice"
                        /\ get_title_for_xp(cert, player.xp, theme) = "Novice"
               ELSE /\ entry \in reached
                    /\ \A k \in reached :
                            threshold(titles[k]) <= threshold(titles[entry])
                    /\ title(player) = fantasy_title(titles[entry])
                    /\ \A theme \in TitleThemes :
                        /\ get_title_for_theme(player, theme)
                                = themed_title(titles[entry], theme)
                        /\ get_title_for_xp(cert, player.xp, theme)
                                = themed_title(titles[entry], theme)

\* xp = 100 on the table that lists its highest entry first: the title is
\* that entry's name, for a theme it names and for one it does not
C23_Witness ==
    /\ pc = "no_session"
    /\ call.op = "gain_xp"
    /\ cert.pack = "defects"
    /\ player.xp = 100
    /\ title(player) = "Adept"
    /\ get_title_for_theme(player, "corporate") = "Adept"
    /\ get_title_for_xp(cert, 50, "corporate") = "Clerk"
    /\ get_title_for_xp(cert, -50, "fantasy") = "Novice"

C25_DomainStatsKeys ==
    player # NoPlayer =>
        /\ DOMAIN player.domain_stats = 1..cert.domain_count
        /\ player.correct_answers + player.wrong_answers = 0 =>
                \A d \in DOMAIN player.domain_stats :
                    player.domain_stats[d] = [correct |-> 0, wrong |-> 0]

\* a wrong answer to a scenario that carries a domain beyond domain_count
C25_Witness ==
    /\ pc = "pause"
    /\ branch = "failure"
    /\ Pending.domain \notin 1..cert.domain_count
    /\ player.wrong_answers = 1
    /\ \A d \in DOMAIN player.domain_stats : player.domain_stats[d].wrong = 0

RECURSIVE toggle_times(_, _, _)
\* the current_index after n calls of toggle_theme in a row
toggle_times(keys, index, n) ==
    IF n = 0 THEN index ELSE toggle_times(keys, toggle_theme(keys, index), n - 1)

\* C26: toggle_theme moves to the next key in declaration order, from the
\* last key to the first, and returns the new current key; theme_count calls
\* in a row lead back to the key they started from, and with a single theme
\* a toggle leaves the key as it is.
C26_ToggleCycles ==
    [][Called("toggle_theme") =>
        LET theme_count == Len(theme_keys) IN
        /\ theme_keys' = theme_keys
        /\ current_index' = IF current_index = theme_count - 1
                            THEN 0 ELSE current_index + 1
        /\ call'.ret = theme_keys[current_index' + 1]
        /\ toggle_times(theme_keys, current_index, theme_count) = current_index
        /\ toggle_times(theme_keys, current_index', theme_count - 1) = current_index
        /\ theme_count = 1 => current_index' = current_index]_vars

\* with three themes, a toggle from the last one returned the first
C26_Witness ==
    /\ pc = "theme_manager"
    /\ call.op = "toggle_theme"
    /\ call.n = 2
    /\ theme_keys = <<"fantasy", "corporate", "noir">>
    /\ current_index = 0
    /\ call.ret = "fantasy"

\* C27: set_theme_by_key with a key that is not configured and
\* set_theme_by_index with an index outside 0..theme_count - 1 return false
\* and leave current_index and the themes as they were; with a configured
\* key or an index in range they return true and make that theme current.
C27_DirectSelection ==
    [][/\ Called("set_theme_by_key") =>
            /\ theme_keys' = theme_keys
            /\ IF \E k \in 1..Len(theme_keys) : theme_keys[k] = call'.amount
               THEN /\ call'.ret = TRUE
                    /\ theme_keys[current_index' + 1] = call'.amount
               ELSE /\ call'.ret = FALSE
                    /\ current_index' = current_index
       /\ Called("set_theme_by_index") =>
            /\ theme_keys' = theme_keys
            /\ IF 0 <= call'.amount /\ call'.amount < Len(theme_keys)
               THEN /\ call'.ret = TRUE
                    /\ current_index' = call'.amount
               ELSE /\ call'.ret = FALSE
                    /\ current_index' = current_index]_vars

\* the second theme was selected by key, then the index theme_count was
\* refused
C27_Witness ==
    /\ pc = "theme_manager"
    /\ call.op = "set_theme_by_index"
    /\ call.n = 2
    /\ call.amount = Len(theme_keys)
    /\ call.ret = FALSE
    /\ current_index = 1

\* the themes the certification declares
Declared(certification) ==
    IF /\ "presentation" \in DOMAIN certification
       /\ "themes" \in DOMAIN certification.presentation
    THEN certification.presentation.themes
    ELSE <<>>

\* C28: whatever the certification (themes declared, an empty themes mapping,
\* none at all) and whatever calls of toggle_theme, set_theme_by_key and
\* set_theme_by_index were made, the list of theme keys is not empty, it is
\* the list of the construction (the declared keys in declaration order, the
\* built-in fantasy/corporate pair when none are declared), and
\* 0 <= current_index < theme_count.
C28_ThemesFixedIndexValid ==
    pc = "theme_manager" =>
        /\ theme_keys # <<>>
        /\ theme_keys = IF Declared(cert) = <<>>
                        THEN <<"fantasy", "corporate">>
                        ELSE Declared(cert)
        /\ 0 <= current_index
        /\ current_index < Len(theme_keys)

\* a manager built from an empty themes mapping, after two calls
C28_Witness ==
    /\ pc = "theme_manager"
    /\ Declared(cert) = <<>>
    /\ "presentation" \in DOMAIN cert
    /\ "themes" \in DOMAIN cert.presentation
    /\ call.n = 2
    /\ call.op = "set_theme_by_index"
    /\ current_index = 1
    /\ theme_keys = <<"fantasy", "corporate">>

\* the block of a scenario the theme resolves to: its own, else the fantasy
\* one, else none (the empty mapping)
Resolved(scenario, theme) ==
    IF theme \in DOMAIN scenario.themes THEN scenario.themes[theme]
    ELSE IF "fantasy" \in DOMAIN scenario.themes THEN scenario.themes.fantasy
    ELSE EmptyDict

\* the failure_texts and the choices of a block, empty when it has none
FailureTextsOf(content) ==
    IF "failure_texts" \in DOMAIN content THEN content.failure_texts ELSE EmptyDict

ChoicesOf(content) ==
    IF "choices" \in DOMAIN content THEN content.choices ELSE << >>

\* the scenario has nothing but its generic failure text: no block has a
\* failure_texts entry and no choice carries a failure_reason
OnlyGeneric(scenario) ==
    \A t \in DOMAIN scenario.themes :
        /\ DOMAIN FailureTextsOf(scenario.themes[t]) = {}
        /\ \A k \in 1..Len(ChoicesOf(scenario.themes[t])) :
                ~ carries_failure_reason(ChoicesOf(scenario.themes[t])[k])

C30_ThemedContentFallback ==
    [][Called("get_themed_content") =>
        LET scenario == Pending
            theme == call'.theme
        IN  /\ IF theme \in DOMAIN scenario.themes
               THEN call'.ret = scenario.themes[theme]
               ELSE IF "fantasy" \in DOMAIN scenario.themes
               THEN call'.ret = scenario.themes.fantasy
               ELSE /\ call'.ret.narrative = ""
                    /\ call'.ret.choices = << >>
                    /\ DOMAIN call'.ret.failure_texts = {}
            /\ cert' = cert
            /\ current_scenario' = current_scenario]_vars

\* a scenario with a fantasy block only, asked for a theme it does not have
C30_Witness ==
    /\ pc = "scenario"
    /\ call.op = "get_themed_content"
    /\ call.theme = "noir"
    /\ DOMAIN Pending.themes = {"fantasy"}
    /\ call.ret = Pending.themes.fantasy

\* C31: at the session end a domain is marked passed exactly when it has an
\* attempt and at least 75% accuracy, it is weak exactly when it has an
\* attempt and less than 75%, and the weak domains are listed whenever the
\* overall accuracy is below 90 and there is a weak domain
C31_WeakDomainsListedBelow90 ==
    (pc = "ended" /\ player # NoPlayer) =>
        /\ \A domain \in 1..cert.domain_count :
              LET tracked == domain \in DOMAIN player.domain_stats
                  correct == IF tracked THEN player.domain_stats[domain].correct ELSE 0
                  total == IF tracked
                           THEN correct + player.domain_stats[domain].wrong ELSE 0
              IN  /\ (/\ domain \in breakdown_domains(player, cert.domain_count)
                      /\ domain_mark(player, domain) = "passed")
                        <=> (total > 0 /\ correct * 100 >= 75 * total)
                  /\ domain \in weak_domains(player, cert.domain_count)
                        <=> (total > 0 /\ correct * 100 < 75 * total)
        /\ (/\ accuracy(player).num < 90 * accuracy(player).den
            /\ weak_domains(player, cert.domain_count) # {})
              => listed_weak_domains(player, cert.domain_count)
                    = weak_domains(player, cert.domain_count)

\* the phase of Game.run a position belongs to: 1 SELECT_THEME, 2 INTRO,
\* 3 NAME_ENTRY, 4 DOMAIN_SELECT, 5 PLAYING, 6 ENDED; 7 is the return of run
\* without a name.  The introduction of the starting domain belongs to the
\* selection, the one of a later domain to the game loop.
PhaseOf(position, selected) ==
    CASE position = "select_theme" -> 1
      [] position = "introduction" -> 2
      [] position \in {"player_name", "name_enter"} -> 3
      [] position \in {"starting_domain", "skip_enter"} -> 4
      [] position = "intro_enter" -> IF selected = <<>> THEN 4 ELSE 5
      [] position \in {"game_loop", "advance_enter", "choice", "confirm", "pause"} -> 5
      [] position = "ended" -> 6
      [] OTHER -> 7

Phase == PhaseOf(pc, selected_scenarios)

\* C32: a run passes through SELECT_THEME, INTRO, NAME_ENTRY, DOMAIN_SELECT,
\* PLAYING, ENDED in that order: a step stays in its phase or enters the next
\* one (run may also return from NAME_ENTRY without a name), nothing follows
\* ENDED, the Player is created by the step that leaves NAME_ENTRY with a
\* name, and a scenario is presented only by the game loop.
C32_PhaseOrder ==
    [][ /\ PhaseOf(pc', selected_scenarios') \in {Phase, Phase + 1}
           \/ (pc = "player_name" /\ pc' = "returned")
        /\ Phase < 6
        /\ (player # NoPlayer) <=> (Phase \in 4..6)
        /\ (player' # player /\ player = NoPlayer)
              => (pc = "name_enter" /\ pc' = "starting_domain")
        /\ pc' = "choice" => (Phase = 5 /\ player # NoPlayer)
      ]_vars

\* a session that went through every phase and played a turn
C32_Witness ==
    /\ pc = "ended"
    /\ player # NoPlayer
    /\ Len(player.scenarios_completed) >= 1

\* the read of the starting-domain prompt was cancelled and the game loop
\* has not run yet
CancelledAtStartingDomain ==
    /\ pc = "game_loop"
    /\ selected_scenarios = <<>>
    /\ last_read \in {EOFError, KeyboardInterrupt}

\* C33: a cancellation at the theme-selection, name-entry or starting-domain
\* prompt is a quit: once the input ended before a name was given no Player
\* is created and no scenario is presented, and after a cancelled
\* starting-domain prompt no scenario is presented and the player is left
\* alone.
C33_CancellationIsQuit ==
    [][ /\ (cancelled /\ pc \in {"select_theme", "introduction", "player_name"})
              => (player' = NoPlayer /\ pc' # "choice")
        /\ CancelledAtStartingDomain => (pc' # "choice" /\ player' = player)
      ]_vars

\* the number of scenarios in the subsets sampled for the given domains
RECURSIVE SubsetSizes(_, _)
SubsetSizes(selected, domains) ==
    IF domains = {} THEN 0
    ELSE LET d == CHOOSE x \in domains : TRUE
         IN  Len(selected[d]) + SubsetSizes(selected, domains \ {d})

\* the turns answered so far
Turns == IF player = NoPlayer THEN 0
         ELSE player.correct_answers + player.wrong_answers

\* every presented scenario is eventually answered by a numeric choice (or
\* the session is left by a confirmed quit)
EveryTurnAnswered ==
    [](pc \in {"choice", "confirm"} => <>(pc \notin {"choice", "confirm"}))

\* C34: when every presented scenario is eventually answered the game loop,
\* once entered, reaches the session end; the ending is final (no step
\* follows it); the turns played never exceed
\* the sizes of the subsets sampled for the domains from the starting one to
\* the last; and on the exhausted last domain the loop stops without
\* advancing.
C34_GameLoopTerminates ==
    /\ EveryTurnAnswered => (Phase = 5 ~> pc = "ended")
    /\ [](/\ Turns <= SubsetSizes(selected_scenarios, DOMAIN selected_scenarios)
          /\ player # NoPlayer =>
                DOMAIN selected_scenarios \subseteq 1..cert.domain_count)
    /\ [][ /\ pc # "ended"
           /\ (Exhausted /\ player.current_domain = cert.domain_count)
                 => (pc' = "ended" /\ player' = player)
         ]_vars

\* the last domain was played to its end and the loop stopped there
C34_Witness ==
    /\ pc = "ended"
    /\ status(player) = "PLAYING"
    /\ Turns >= 1
    /\ Turns = SubsetSizes(selected_scenarios, DOMAIN selected_scenarios)

\* C35: correct_answers + wrong_answers is the number of ids in
\* scenarios_completed; a numeric answer adds exactly one id that was not
\* there; a scenario whose id is completed is never presented.
C35_TurnsAreCompletedIds ==
    /\ [](player # NoPlayer =>
            /\ Turns = Len(player.scenarios_completed)
            /\ Cardinality(Range(player.scenarios_completed))
                  = Len(player.scenarios_completed))
    /\ [][ /\ Answered =>
                /\ Pending.id \notin Range(player.scenarios_completed)
                /\ player'.scenarios_completed
                      = Append(player.scenarios_completed, Pending.id)
                /\ Turns' = Turns + 1
           /\ pc' = "choice" =>
                Deref(cert, current_scenario').id
                    \notin Range(player'.scenarios_completed)
         ]_vars

\* two turns were answered, one right and one wrong
C35_Witness ==
    /\ player # NoPlayer
    /\ player.correct_answers >= 1
    /\ player.wrong_answers >= 1
    /\ Len(player.scenarios_completed) >= 2

\* the sum of one counter of domain_stats over the tracked domains
RECURSIVE SumStats(_, _, _)
SumStats(stats, domains, kind) ==
    IF domains = {} THEN 0
    ELSE LET d == CHOOSE x \in domains : TRUE
         IN  stats[d][kind] + SumStats(stats, domains \ {d}, kind)

\* C36: the per-domain correct counters add up to correct_answers and the
\* per-domain wrong counters to wrong_answers, whatever the scenarios loaded
\* into the pools.
C36_DomainStatsAddUp ==
    player # NoPlayer =>
        /\ SumStats(player.domain_stats, DOMAIN player.domain_stats, "correct")
              = player.correct_answers
        /\ SumStats(player.domain_stats, DOMAIN player.domain_stats, "wrong")
              = player.wrong_answers

\* C37: the answer to a scenario drawn from the pool of the current domain d
\* is tallied in the domain_stats of d and in no other domain, so that a
\* domain for which no subset was sampled keeps 0 attempts.
C37_TalliedInCurrentDomain ==
    [][Answered =>
          /\ player'.domain_stats =
                Tallied(player.domain_stats, player.current_domain,
                        IF branch' = "success" THEN "correct" ELSE "wrong")
          /\ \A d \in DOMAIN player'.domain_stats :
                d \notin DOMAIN selected_scenarios
                    => player'.domain_stats[d] = [correct |-> 0, wrong |-> 0]
      ]_vars

\* C38: once the starting domain is selected current_domain never decreases:
\* a step leaves it unchanged, raises it by 1 (the advance from an exhausted
\* domain) or sets it to domain_count + 1 (the confirmed quit); a subset is
\* sampled only for the current domain, which lies above every domain
\* sampled before, so no domain is re-entered and none below the starting
\* domain is sampled.
C38_DomainNeverDecreases ==
    [][(player # NoPlayer /\ pc # "starting_domain") =>
          /\ player'.current_domain >= player.current_domain
          /\ \/ player'.current_domain = player.current_domain
             \/ /\ Exhausted
                /\ player'.current_domain = player.current_domain + 1
             \/ /\ pc = "confirm" /\ pc' = "ended"
                /\ player'.current_domain = cert.domain_count + 1
          /\ \A d \in DOMAIN selected_scenarios' \ DOMAIN selected_scenarios :
                /\ pc = "game_loop"
                /\ d = player.current_domain
                /\ \A e \in DOMAIN selected_scenarios : e < d
          /\ \A d \in DOMAIN selected_scenarios : d <= player.current_domain
      ]_vars

\* the second domain was entered by the advance from the first one and its
\* subset was sampled
C38_Witness ==
    /\ player # NoPlayer
    /\ player.current_domain = 2
    /\ DOMAIN selected_scenarios = {1, 2}
    /\ Len(player.scenarios_completed) >= 1

\* the scenarios of all the pools of a certification, as <<domain, position>>
PoolRefs(c) ==
    {ref \in (1..c.domain_count) \X (1..PoolSize) :
        ref[2] <= Len(scenarios(c)[ref[1]])}

\* scenario ids are unique and every xp_reward is within 0..xp_per_correct
WellFormedRewards(c) ==
    /\ \A r1, r2 \in PoolRefs(c) : Deref(c, r1).id = Deref(c, r2).id => r1 = r2
    /\ \A r \in PoolRefs(c) :
          /\ Deref(c, r).xp_reward >= 0
          /\ Deref(c, r).xp_reward <= c.scoring.xp_per_correct

\* C39: with unique scenario ids and rewards within 0..xp_per_correct, xp
\* never exceeds max_xp = domain_count * scenarios_per_domain *
\* xp_per_correct, whatever the starting domain.
C39_XpWithinMaxXp ==
    (player # NoPlayer /\ WellFormedRewards(cert)) =>
        /\ player._max_xp = cert.domain_count * cert.scoring.scenarios_per_domain
                                * cert.scoring.xp_per_correct
        /\ player.xp <= player._max_xp

\* a player who skipped the first domain and answered everything after it
\* correctly holds exactly max_xp
C39_Witness ==
    /\ player # NoPlayer
    /\ WellFormedRewards(cert)
    /\ 1 \notin DOMAIN selected_scenarios
    /\ player.correct_answers >= 1
    /\ player.xp = player._max_xp

\* the result get_choice gives for a read when the scenario of the turn is
\* displayed under the theme of the given key
ChoiceUnder(key, read) ==
    get_choice(read, Len(get_themed_content(Pending, key).choices))

\* C40: scoring does not depend on the theme.  The player a numeric answer
\* leaves, under the active theme and after any theme toggles, is the player
\* the same line leaves under every theme in which it is a valid choice: the
\* same choice number, judged against the scenario's correct_index.
C40_ScoringIgnoresTheme ==
    [][Answered =>
          \A key \in Range(theme_keys) :
              ChoiceUnder(key, last_read')[1] = "choice" =>
                  /\ ChoiceUnder(key, last_read') = result'
                  /\ player' =
                        IF ChoiceUnder(key, last_read')[2] - 1 = Pending.correct_index
                        THEN complete_scenario(handle_success(player, Pending), Pending.id)
                        ELSE complete_scenario(handle_failure(player, Pending), Pending.id)
      ]_vars

\* a turn answered under the second theme, on a scenario whose themes offer
\* different numbers of choices, by a number valid under both
C40_Witness ==
    /\ pc = "pause"
    /\ branch \in {"success", "failure"}
    /\ current_index = 1
    /\ \E k1, k2 \in Range(theme_keys) :
          Len(get_themed_content(Pending, k1).choices)
              # Len(get_themed_content(Pending, k2).choices)
    /\ \A key \in Range(theme_keys) : ChoiceUnder(key, last_read) = result

====
